---- MODULE Spec2Model ----
(***************************************************************************)
(* Model of Q1.py: the two-key substitution cipher (four 13-letter shift   *)
(* rules), its inverse, and the encrypt_file -> decrypt_file ->            *)
(* verify_files workflow of the __main__ block.                            *)
(*                                                                         *)
(* Characters are modelled by their code points (Python's ord), texts by   *)
(* sequences of code points, files by their stored content.                *)
(***************************************************************************)
EXTENDS Integers, Sequences, FiniteSets, TLC

VARIABLES
    \* ---- single-character calls (CharSpec)
    ch,        \* the character handed to the function under call
    key1,      \* first key of the call
    key2,      \* second key of the call
    call,      \* which function has been called: "none" before any call
    amt,       \* the amount k handed to a direct shift_* call
    ret,       \* the value returned by the last call
    \* ---- the __main__ workflow (Spec)
    files,     \* file name -> stored content, or NoFile
    linesep,   \* os.linesep of the platform the program runs on
    pc,        \* position of __main__
    shift1,    \* int(input("Enter shift1: "))
    shift2,    \* int(input("Enter shift2: "))
    text,      \* local `text` of the last encrypt_file / decrypt_file call
    outtext,   \* local `enc` / `dec` of the last encrypt_file / decrypt_file call
    console,   \* what has been printed so far
    \* ---- chunked transform (ChunkSpec)
    whole,     \* the text to transform
    chunks,    \* its split into consecutive chunks
    parts,     \* chunk index -> transformed chunk, or Pending
    joined     \* the concatenation of the transformed chunks, once built

charVars == <<ch, key1, key2, call, amt, ret>>
fileVars == <<files, linesep, pc, shift1, shift2, text, outtext, console>>
chunkVars == <<whole, chunks, parts, joined>>
vars == <<ch, key1, key2, call, amt, ret,
          files, linesep, pc, shift1, shift2, text, outtext, console,
          whole, chunks, parts, joined>>

----------------------------------------------------------------------------
(* Bounds of the model *)

\* keys of the single-character calls range over -MaxKey .. MaxKey
MaxKey == 14
\* keys typed at the prompt in the workflow range over -MaxFileKey .. MaxFileKey
MaxFileKey == 2
\* longest raw text of the workflow
MaxLen == 2
\* longest text of the chunked transform
MaxChunkLen == 3

----------------------------------------------------------------------------
(* Code points of the character literals of Q1.py *)

ord_a == 97
ord_m == 109
ord_n == 110
ord_z == 122
ord_A == 65
ord_M == 77
ord_N == 78
ord_Z == 90

\* line feed and carriage return, the characters newline translation acts on
LF == 10
CR == 13

LowerFirst == ord_a .. ord_m
LowerSecond == ord_n .. ord_z
UpperFirst == ord_A .. ord_M
UpperSecond == ord_N .. ord_Z
Letters == LowerFirst \cup LowerSecond \cup UpperFirst \cup UpperSecond

\* non-letters: newline, carriage return, space, '!', '0', '9', the code
\* points right next to the letter ranges ('@', '[', '`', '{') and a
\* non-ASCII letter
NonLetters == {LF, CR, 32, 33, 48, 57, 64, 91, 96, 123, 233}
Chars == Letters \cup NonLetters
Keys == (-MaxKey) .. MaxKey

----------------------------------------------------------------------------
(* The four shift functions *)

\* a shift whose final reduction is missing: the index may leave [0, 13)
shift_lower_first_noWrap(c, k) == ord_a + (c - ord_a + (k % 13))

shift_lower_first(c, k) ==
    LET idx == (c - ord_a + (k % 13)) % 13
    IN  ord_a + idx

shift_lower_second(c, k) ==
    LET idx == (c - ord_n + (k % 13)) % 13
    IN  ord_n + idx

\* truncating remainder (sign of the dividend), as in C or Java
TruncMod(x, m) == IF x >= 0 THEN x % m ELSE -((-x) % m)

\* a shift computed with the truncating remainder
shift_upper_first_truncMod(c, k) ==
    LET idx == TruncMod(c - ord_A + TruncMod(k, 13), 13)
    IN  ord_A + idx

shift_upper_first(c, k) ==
    LET idx == (c - ord_A + (k % 13)) % 13
    IN  ord_A + idx

\* a shift that reduces modulo the whole alphabet instead of the segment
shift_upper_second_mod26(c, k) ==
    LET idx == (c - ord_N + (k % 26)) % 26
    IN  ord_N + idx

shift_upper_second(c, k) ==
    LET idx == (c - ord_N + (k % 13)) % 13
    IN  ord_N + idx

----------------------------------------------------------------------------
(* encrypt_character / decrypt_character *)

\* an encryption whose second-half lowercase rule adds the sum
encrypt_character_plusSum(c, s1, s2) ==
    LET prod == s1 * s2
        ssum == s1 + s2
    IN  IF ord_a <= c /\ c <= ord_z
        THEN IF c <= ord_m
             THEN shift_lower_first(c, prod)
             ELSE shift_lower_second(c, ssum)
        ELSE IF ord_A <= c /\ c <= ord_Z
             THEN IF c <= ord_M
                  THEN shift_upper_first(c, -s1)
                  ELSE shift_upper_second(c, s2 * s2)
             ELSE c

\* an encryption whose letter test is the single range 'A' .. 'z'
encrypt_character_wideRange(c, s1, s2) ==
    LET prod == s1 * s2
        ssum == s1 + s2
    IN  IF ord_a <= c /\ c <= ord_z
        THEN IF c <= ord_m
             THEN shift_lower_first(c, prod)
             ELSE shift_lower_second(c, -ssum)
        ELSE IF ord_A <= c /\ c <= ord_z
             THEN IF c <= ord_M
                  THEN shift_upper_first(c, -s1)
                  ELSE shift_upper_second(c, s2 * s2)
             ELSE c

encrypt_character(c, s1, s2) ==
    LET prod == s1 * s2
        ssum == s1 + s2
    IN  IF ord_a <= c /\ c <= ord_z
        THEN IF c <= ord_m
             THEN shift_lower_first(c, prod)
             ELSE shift_lower_second(c, -ssum)
        ELSE IF ord_A <= c /\ c <= ord_Z
             THEN IF c <= ord_M
                  THEN shift_upper_first(c, -s1)
                  ELSE shift_upper_second(c, s2 * s2)
             ELSE c

\* a decryption that forgets to negate the uppercase second-half amount
decrypt_character_sameSign(c, s1, s2) ==
    LET prod == s1 * s2
        ssum == s1 + s2
    IN  IF ord_a <= c /\ c <= ord_z
        THEN IF c <= ord_m
             THEN shift_lower_first(c, -prod)
             ELSE shift_lower_second(c, ssum)
        ELSE IF ord_A <= c /\ c <= ord_Z
             THEN IF c <= ord_M
                  THEN shift_upper_first(c, s1)
                  ELSE shift_upper_second(c, s2 * s2)
             ELSE c

decrypt_character(c, s1, s2) ==
    LET prod == s1 * s2
        ssum == s1 + s2
    IN  IF ord_a <= c /\ c <= ord_z
        THEN IF c <= ord_m
             THEN shift_lower_first(c, -prod)
             ELSE shift_lower_second(c, ssum)
        ELSE IF ord_A <= c /\ c <= ord_Z
             THEN IF c <= ord_M
                  THEN shift_upper_first(c, s1)
                  ELSE shift_upper_second(c, -(s2 * s2))
             ELSE c

----------------------------------------------------------------------------
(* Single-character calls *)

\* nothing has been returned yet
NoValue == "NoValue"

CharInit ==
    /\ ch \in Chars
    /\ key1 \in Keys
    /\ key2 \in Keys
    /\ call = "none"
    /\ amt = 0
    /\ ret = NoValue

CallEncrypt ==
    /\ call = "none"
    /\ ret' = encrypt_character(ch, key1, key2)
    /\ call' = "encrypt"
    /\ UNCHANGED <<ch, key1, key2, amt>>
    /\ UNCHANGED <<fileVars, chunkVars>>

CallDecrypt ==
    /\ call = "none"
    /\ ret' = decrypt_character(ch, key1, key2)
    /\ call' = "decrypt"
    /\ UNCHANGED <<ch, key1, key2, amt>>
    /\ UNCHANGED <<fileVars, chunkVars>>

\* decrypt_character applied to what encrypt_character returned
CallDecryptOfEncrypted ==
    /\ call = "encrypt"
    /\ ret' = decrypt_character(ret, key1, key2)
    /\ call' = "roundtrip"
    /\ UNCHANGED <<ch, key1, key2, amt>>
    /\ UNCHANGED <<fileVars, chunkVars>>

\* a direct call of one shift function; the amount is the product of the two
\* drawn keys, so that it takes every value of Keys and magnitudes far
\* beyond 13
CallShiftLowerFirst ==
    /\ call = "none"
    /\ amt' = key1 * key2
    /\ ret' = shift_lower_first(ch, key1 * key2)
    /\ call' = "shift_lower_first"
    /\ UNCHANGED <<ch, key1, key2>>
    /\ UNCHANGED <<fileVars, chunkVars>>

CallShiftLowerSecond ==
    /\ call = "none"
    /\ amt' = key1 * key2
    /\ ret' = shift_lower_second(ch, key1 * key2)
    /\ call' = "shift_lower_second"
    /\ UNCHANGED <<ch, key1, key2>>
    /\ UNCHANGED <<fileVars, chunkVars>>

CallShiftUpperFirst ==
    /\ call = "none"
    /\ amt' = key1 * key2
    /\ ret' = shift_upper_first(ch, key1 * key2)
    /\ call' = "shift_upper_first"
    /\ UNCHANGED <<ch, key1, key2>>
    /\ UNCHANGED <<fileVars, chunkVars>>

CallShiftUpperSecond ==
    /\ call = "none"
    /\ amt' = key1 * key2
    /\ ret' = shift_upper_second(ch, key1 * key2)
    /\ call' = "shift_upper_second"
    /\ UNCHANGED <<ch, key1, key2>>
    /\ UNCHANGED <<fileVars, chunkVars>>

CharNext ==
    \/ CallEncrypt
    \/ CallDecrypt
    \/ CallDecryptOfEncrypted
    \/ CallShiftLowerFirst
    \/ CallShiftLowerSecond
    \/ CallShiftUpperFirst
    \/ CallShiftUpperSecond

----------------------------------------------------------------------------
(* Text-mode file I/O: open(name, "r" / "w", encoding="utf-8") *)

RAW_FILE == "raw_text.txt"
ENC_FILE == "encrypted_text.txt"
DEC_FILE == "decrypted_text.txt"
FileNames == {RAW_FILE, ENC_FILE, DEC_FILE}

\* the file does not exist (no stored content holds a negative code point)
NoFile == <<-1>>

\* the local has not been assigned yet
NoText == <<-2>>

\* f.read() of a file opened in text mode with the default newline=None:
\* "\r\n" and a lone "\r" are both returned as "\n"
RECURSIVE read_text(_)
read_text(content) ==
    IF content = <<>> THEN <<>>
    ELSE IF Head(content) = CR
         THEN IF Len(content) >= 2 /\ content[2] = LF
              THEN <<LF>> \o read_text(Tail(Tail(content)))
              ELSE <<LF>> \o read_text(Tail(content))
         ELSE <<Head(content)>> \o read_text(Tail(content))

\* f.write(s) to a file opened in text mode with the default newline=None:
\* every "\n" is stored as os.linesep
RECURSIVE write_text(_, _)
write_text(s, sep) ==
    IF s = <<>> THEN <<>>
    ELSE (IF Head(s) = LF THEN sep ELSE <<Head(s)>>) \o write_text(Tail(s), sep)

\* ''.join that loses the characters the transform leaves alone
RECURSIVE encrypt_text_dropsNonLetters(_, _, _)
encrypt_text_dropsNonLetters(s, s1, s2) ==
    IF s = <<>> THEN <<>>
    ELSE (IF Head(s) \in Letters
          THEN <<encrypt_character(Head(s), s1, s2)>> ELSE <<>>)
         \o encrypt_text_dropsNonLetters(Tail(s), s1, s2)

\* a transform with a running key: each character is shifted by keys that
\* grow with the number of characters still to come
RECURSIVE encrypt_text_runningKey(_, _, _)
encrypt_text_runningKey(s, s1, s2) ==
    IF s = <<>> THEN <<>>
    ELSE <<encrypt_character(Head(s), s1 + Len(s), s2)>>
         \o encrypt_text_runningKey(Tail(s), s1, s2)

\* ''.join(encrypt_character(c, shift1, shift2) for c in text)
RECURSIVE encrypt_text_join(_, _, _)
encrypt_text_join(s, s1, s2) ==
    IF s = <<>> THEN <<>>
    ELSE <<encrypt_character(Head(s), s1, s2)>> \o encrypt_text_join(Tail(s), s1, s2)

encrypt_text(s, s1, s2) == encrypt_text_join(s, s1, s2)

\* ''.join(decrypt_character(c, shift1, shift2) for c in text)
RECURSIVE decrypt_text_join(_, _, _)
decrypt_text_join(s, s1, s2) ==
    IF s = <<>> THEN <<>>
    ELSE <<decrypt_character(Head(s), s1, s2)>> \o decrypt_text_join(Tail(s), s1, s2)

decrypt_text(s, s1, s2) == decrypt_text_join(s, s1, s2)

----------------------------------------------------------------------------
(* The __main__ workflow *)

\* characters of the raw texts: one letter of each class, a digit, and the
\* two characters newline translation acts on
FileAlphabet == {ord_m, ord_n, ord_A, ord_Z, 49, LF, CR}
RawTexts == UNION {[1 .. n -> FileAlphabet] : n \in 0 .. MaxLen}
FileKeys == (-MaxFileKey) .. MaxFileKey

\* what an earlier run left in the two output files
Stale == <<ord_z, ord_z, ord_z>>

MsgEncrypted == "Encryption complete. Output written to 'encrypted_text.txt'."
MsgDecrypted == "Decryption complete. Output written to 'decrypted_text.txt'."
MsgMatch == "Decryption Successful: Original and decrypted files match."
MsgMismatch == "Decryption Failed: Files do not match."
MsgNotFound == "FileNotFoundError"

FileInit ==
    /\ \E raw \in RawTexts \cup {NoFile}, old \in {NoFile, Stale} :
          files = [f \in FileNames |-> IF f = RAW_FILE THEN raw ELSE old]
    /\ linesep \in {<<LF>>, <<CR, LF>>}
    /\ pc = "input"
    /\ shift1 = NoValue
    /\ shift2 = NoValue
    /\ text = NoText
    /\ outtext = NoText
    /\ console = <<>>

\* shift1 = int(input(...)); shift2 = int(input(...))
ReadKeys ==
    /\ pc = "input"
    /\ \E k1 \in FileKeys, k2 \in FileKeys :
          /\ shift1' = k1
          /\ shift2' = k2
    /\ pc' = "encrypt"
    /\ UNCHANGED <<files, linesep, text, outtext, console>>
    /\ UNCHANGED <<charVars, chunkVars>>

\* an encrypt_file that writes its output over the raw file
EncryptFile_overwritesRaw ==
    /\ pc = "encrypt"
    /\ IF files[RAW_FILE] = NoFile
       THEN /\ pc' = "error"
            /\ console' = Append(console, MsgNotFound)
            /\ UNCHANGED <<files, text, outtext>>
       ELSE /\ text' = read_text(files[RAW_FILE])
            /\ outtext' = encrypt_text(text', shift1, shift2)
            /\ files' = [files EXCEPT ![RAW_FILE] = write_text(outtext', linesep),
                                      ![ENC_FILE] = write_text(outtext', linesep)]
            /\ console' = Append(console, MsgEncrypted)
            /\ pc' = "decrypt"
    /\ UNCHANGED <<linesep, shift1, shift2>>
    /\ UNCHANGED <<charVars, chunkVars>>

EncryptFile ==
    /\ pc = "encrypt"
    /\ IF files[RAW_FILE] = NoFile
       THEN \* open(RAW_FILE, "r") raises; __main__ ends with a traceback
            /\ pc' = "error"
            /\ console' = Append(console, MsgNotFound)
            /\ UNCHANGED <<files, text, outtext>>
       ELSE /\ text' = read_text(files[RAW_FILE])
            /\ outtext' = encrypt_text(text', shift1, shift2)
            /\ files' = [files EXCEPT ![ENC_FILE] = write_text(outtext', linesep)]
            /\ console' = Append(console, MsgEncrypted)
            /\ pc' = "decrypt"
    /\ UNCHANGED <<linesep, shift1, shift2>>
    /\ UNCHANGED <<charVars, chunkVars>>

DecryptFile ==
    /\ pc = "decrypt"
    /\ text' = read_text(files[ENC_FILE])
    /\ outtext' = decrypt_text(text', shift1, shift2)
    /\ files' = [files EXCEPT ![DEC_FILE] = write_text(outtext', linesep)]
    /\ console' = Append(console, MsgDecrypted)
    /\ pc' = "verify"
    /\ UNCHANGED <<linesep, shift1, shift2>>
    /\ UNCHANGED <<charVars, chunkVars>>

VerifyFiles ==
    /\ pc = "verify"
    /\ LET same == read_text(files[RAW_FILE]) = read_text(files[DEC_FILE])
       IN  console' = Append(console, IF same THEN MsgMatch ELSE MsgMismatch)
    /\ pc' = "done"
    /\ UNCHANGED <<files, linesep, shift1, shift2, text, outtext>>
    /\ UNCHANGED <<charVars, chunkVars>>

FileNext ==
    \/ ReadKeys
    \/ EncryptFile
    \/ DecryptFile
    \/ VerifyFiles

----------------------------------------------------------------------------
(* Idle values of the variables a specification does not use *)

CharIdle ==
    /\ ch = NoValue /\ key1 = NoValue /\ key2 = NoValue
    /\ call = "none" /\ amt = 0 /\ ret = NoValue

FileIdle ==
    /\ files = [f \in FileNames |-> NoFile]
    /\ linesep = <<LF>>
    /\ pc = "idle"
    /\ shift1 = NoValue /\ shift2 = NoValue
    /\ text = NoText /\ outtext = NoText
    /\ console = <<>>

ChunkIdle ==
    /\ whole = NoText /\ chunks = <<>> /\ parts = <<>> /\ joined = NoText

----------------------------------------------------------------------------
(* The transform applied chunk by chunk *)

\* characters of the chunked texts: a letter whose shift wraps forward, a
\* letter of another class, and a non-letter
ChunkAlphabet == {ord_m, ord_Z, LF}
ChunkTexts == UNION {[1 .. n -> ChunkAlphabet] : n \in 0 .. MaxChunkLen}

\* every split of s into consecutive non-empty chunks
RECURSIVE Splits(_)
Splits(s) ==
    IF s = <<>> THEN {<<>>}
    ELSE UNION {{<<SubSeq(s, 1, n)>> \o rest :
                    rest \in Splits(SubSeq(s, n + 1, Len(s)))} : n \in 1 .. Len(s)}

\* the chunk has not been transformed yet
Pending == <<-3>>

\* ''.join of the transformed chunks, in chunk order
RECURSIVE Concat(_)
Concat(ps) == IF ps = <<>> THEN <<>> ELSE Head(ps) \o Concat(Tail(ps))

ChunkInit ==
    /\ whole \in ChunkTexts
    /\ chunks \in Splits(whole)
    /\ parts = [i \in 1 .. Len(chunks) |-> Pending]
    /\ joined = NoText
    /\ key1 \in FileKeys
    /\ key2 \in FileKeys
    /\ ch = NoValue /\ call = "none" /\ amt = 0 /\ ret = NoValue

\* one worker transforms chunk i, whatever the other workers have done
TransformChunk(i) ==
    /\ parts[i] = Pending
    /\ parts' = [parts EXCEPT ![i] = encrypt_text(chunks[i], key1, key2)]
    /\ UNCHANGED <<whole, chunks, joined>>
    /\ UNCHANGED <<charVars, fileVars>>

\* once every chunk is transformed, the results are concatenated
JoinChunks ==
    /\ joined = NoText
    /\ \A i \in 1 .. Len(chunks) : parts[i] # Pending
    /\ joined' = Concat(parts)
    /\ UNCHANGED <<whole, chunks, parts>>
    /\ UNCHANGED <<charVars, fileVars>>

ChunkNext ==
    \/ \E i \in 1 .. Len(chunks) : TransformChunk(i)
    \/ JoinChunks

\* the program: __main__ of Q1.py
Init == FileInit /\ CharIdle /\ ChunkIdle
Next == FileNext
Spec == Init /\ [][Next]_vars

\* the character functions, called one at a time on drawn inputs
CharSpecInit == CharInit /\ FileIdle /\ ChunkIdle
CharSpec == CharSpecInit /\ [][CharNext]_vars

\* the text transform of encrypt_file applied to the chunks of a split text
ChunkSpecInit == ChunkInit /\ FileIdle
ChunkSpec == ChunkSpecInit /\ [][ChunkNext]_vars

----------------------------------------------------------------------------
(* Properties of the character functions, checked under CharSpec *)

\* C1: for every letter c of the four 13-letter classes and every key pair
\* (zero and negative keys included), decrypting the encryption of c with
\* the same keys returns c.
C1_RoundTripChar ==
    (call = "roundtrip" /\ ch \in Letters) => ret = ch

\* a letter that encryption really moved, under a negative and a zero key,
\* has come back
C1_Witness ==
    /\ call = "roundtrip"
    /\ ch = ord_n /\ key1 = -3 /\ key2 = 0
    /\ encrypt_character(ch, key1, key2) = ord_n + 3
    /\ ret = ch

\* C3: encrypt_character maps each of a..m, n..z, A..M, N..Z into itself,
\* so decrypt_character classifies the ciphertext letter as the plaintext
\* letter was classified.
C3_ClassClosure ==
    call = "encrypt" =>
        /\ ch \in LowerFirst => ret \in LowerFirst
        /\ ch \in LowerSecond => ret \in LowerSecond
        /\ ch \in UpperFirst => ret \in UpperFirst
        /\ ch \in UpperSecond => ret \in UpperSecond

\* 'm' encrypted with a product of 12 wraps around inside a..m
C3_Witness ==
    /\ call = "encrypt"
    /\ ch = ord_m /\ key1 = 3 /\ key2 = 4
    /\ ret = ord_m - 1

\* C4: every character outside [a-zA-Z] is returned unchanged by
\* encrypt_character and by decrypt_character, whatever the keys.
C4_Passthrough ==
    (call \in {"encrypt", "decrypt"} /\ ch \notin Letters) => ret = ch

\* '[' , the code point right after 'Z', passed through an encryption whose
\* keys move every letter
C4_Witness ==
    /\ call = "encrypt"
    /\ ch = 91 /\ key1 = 5 /\ key2 = 7
    /\ ret = 91

\* C6: encrypt_character agrees with the rule table: a..m rotated in
\* segment 'a' by +(key1*key2), n..z in segment 'n' by -(key1+key2), A..M in
\* segment 'A' by -key1, N..Z in segment 'N' by +(key2*key2), where a
\* rotation is origin + ((c - origin) + (amount mod 13)) mod 13; with keys
\* (3, 4): 'a' -> 'm', 'n' -> 't', 'A' -> 'K', 'N' -> 'Q'.
C6_RuleTable ==
    LET rotate(c, origin, amount) ==
            origin + (((c - origin) + (amount % 13)) % 13)
        expected ==
            IF ch \in LowerFirst THEN rotate(ch, ord_a, key1 * key2)
            ELSE IF ch \in LowerSecond THEN rotate(ch, ord_n, -(key1 + key2))
            ELSE IF ch \in UpperFirst THEN rotate(ch, ord_A, -key1)
            ELSE IF ch \in UpperSecond THEN rotate(ch, ord_N, key2 * key2)
            ELSE ch
    IN  call = "encrypt" =>
            /\ ret = expected
            /\ (key1 = 3 /\ key2 = 4) =>
                  /\ ch = ord_a => ret = ord_m
                  /\ ch = ord_n => ret = ord_n + 6
                  /\ ch = ord_A => ret = ord_A + 10
                  /\ ch = ord_N => ret = ord_N + 3

\* encode('n', 3, 4) = 't'
C6_Witness ==
    /\ call = "encrypt"
    /\ ch = ord_n /\ key1 = 3 /\ key2 = 4
    /\ ret = 116

\* C7: for every letter of a segment and every signed amount, each shift
\* function computes an index in [0, 13) and returns a letter of the same
\* segment.
C7_ShiftStaysInSegment ==
    /\ (call = "shift_lower_first" /\ ch \in LowerFirst) =>
          (ret - ord_a \in 0 .. 12 /\ ret \in LowerFirst)
    /\ (call = "shift_lower_second" /\ ch \in LowerSecond) =>
          (ret - ord_n \in 0 .. 12 /\ ret \in LowerSecond)
    /\ (call = "shift_upper_first" /\ ch \in UpperFirst) =>
          (ret - ord_A \in 0 .. 12 /\ ret \in UpperFirst)
    /\ (call = "shift_upper_second" /\ ch \in UpperSecond) =>
          (ret - ord_N \in 0 .. 12 /\ ret \in UpperSecond)

\* 'A' shifted by -196 (= -1 mod 13) wraps backwards to 'M'
C7_Witness ==
    /\ call = "shift_upper_first"
    /\ ch = ord_A /\ amt = -196
    /\ ret = ord_M

\* C9: the transform depends on the keys only modulo 13: adding 13 to
\* either key changes neither encrypt_character nor decrypt_character, and
\* keys that are both multiples of 13 (such as 0, 0) make encryption the
\* identity.
C9_KeysModulo13 ==
    /\ call = "encrypt" =>
          /\ ret = encrypt_character(ch, key1 + 13, key2)
          /\ ret = encrypt_character(ch, key1, key2 + 13)
          /\ (key1 % 13 = 0 /\ key2 % 13 = 0) => ret = ch
    /\ call = "decrypt" =>
          /\ ret = decrypt_character(ch, key1 + 13, key2)
          /\ ret = decrypt_character(ch, key1, key2 + 13)

\* keys (13, -13) leave 'q' where it is
C9_Witness ==
    /\ call = "encrypt"
    /\ ch = 113 /\ key1 = 13 /\ key2 = -13
    /\ ret = 113

----------------------------------------------------------------------------
(* Properties of the workflow, checked under Spec *)

\* C2: after encrypt_file then decrypt_file, the decrypted file's content
\* equals the raw file's content exactly, and verify_files reports a match.
C2_FileRoundTrip ==
    pc = "done" =>
        /\ files[DEC_FILE] = files[RAW_FILE]
        /\ console[Len(console)] = MsgMatch

C10_Frame ==
    [][/\ files'[RAW_FILE] = files[RAW_FILE]
       /\ pc = "encrypt" => files'[DEC_FILE] = files[DEC_FILE]
       /\ pc = "decrypt" => files'[ENC_FILE] = files[ENC_FILE]
       /\ pc \in {"input", "verify"} => files' = files]_vars

\* encrypt_file has replaced the stale encrypted file and left the stale
\* decrypted file alone
C10_Witness ==
    /\ pc = "decrypt"
    /\ files[RAW_FILE] = <<ord_m, ord_Z>>
    /\ files[ENC_FILE] # Stale
    /\ files[DEC_FILE] = Stale

----------------------------------------------------------------------------
(* Property of the chunked transform, checked under ChunkSpec *)

\* C8: transforming the chunks of any split independently, in any order,
\* and concatenating the results in chunk order gives the transform of the
\* whole text.
C8_ChunkIndependence ==
    /\ joined # NoText => joined = encrypt_text(whole, key1, key2)
    /\ \A i \in 1 .. Len(chunks) :
          parts[i] # Pending => Len(parts[i]) = Len(chunks[i])

\* a text split into three chunks has been transformed and joined
C8_Witness ==
    /\ whole = <<ord_m, LF, ord_Z>>
    /\ Len(chunks) = 3
    /\ key1 = 2 /\ key2 = 1
    /\ joined = <<ord_a + 1, LF, ord_N>>

====
